---- MODULE Spec2Model ----
(***************************************************************************)
(* OPUS-Net Position Data Viewer (OPUS_net_Daily_Position_App.py).         *)
(*                                                                         *)
(* The Streamlit script is re-run from top to bottom on every interaction. *)
(* One action of the model is one such run: the run of a Fetch Data click, *)
(* of a Show Data click, of a Convert click, or of a change of the site    *)
(* selection.  The state that survives between runs is st.session_state;   *)
(* the other variables record what the last run did and put on the page.   *)
(*                                                                         *)
(* Representation.  A fetched text is a sequence of lines, a line is the   *)
(* tuple of its whitespace-separated fields.  The first two fields (YYYY,  *)
(* DDD) are tuples of decimal digits, the others are the literal text of   *)
(* the field.  The lines of the model have 8, 9 or 10 fields (10 = the     *)
(* number of column names of read_csv), or none (a blank line is skipped). *)
(* A string of the program that the model has                              *)
(* to look into (the 'YYYYDDD' key, the 'MM/DD/YYYY' Date) is a tuple of   *)
(* one-character strings.  A DataFrame is the sequence of its rows, a row  *)
(* a record that also carries its pandas index label.  pyproj's transform  *)
(* is an uninterpreted function of (x, y, z).                              *)
(***************************************************************************)
EXTENDS Integers, Sequences, FiniteSets, TLC

VARIABLES
    session_state,   \* st.session_state: a function from the keys set so far
    selected_site,   \* value of the 'Select a site' selectbox
    button,          \* the button whose click caused the last run ("" if none)
    response,        \* what requests.get met in the last Fetch Data run
    trace,           \* the steps of read_txt_from_url the last run executed
    st_error,        \* the message st.error put on the page in the last run
    exception,       \* the exception that aborted the last run ("" if none)
    start_date,      \* 'Select a starting date' as read by the last Show Data run
    rows_to_show,    \* 'Select number of rows to display', likewise
    converted_data   \* the DataFrame the last Convert run displayed

vars == <<session_state, selected_site, button, response, trace, st_error,
          exception, start_date, rows_to_show, converted_data>>

(***************************************************************************)
(* Bounds of the model.                                                    *)
(***************************************************************************)
MaxLines == 2        \* lines of a fetched text, session specification
MaxPipeLines == 3    \* lines of a fetched text, pipeline specification
MaxLimit == 3        \* largest row limit tried by the pipeline specification
MaxDay == 367        \* largest day-of-year token, parse specification

(***************************************************************************)
(* Calendar arithmetic of datetime.date, which pandas' strptime uses to    *)
(* turn (year, day-of-year) into (year, month, day).                       *)
(***************************************************************************)
IsLeap(y) == (y % 4 = 0) /\ ((y % 100 # 0) \/ (y % 400 = 0))

DaysInMonth(y, m) ==
    IF m = 2 THEN (IF IsLeap(y) THEN 29 ELSE 28)
    ELSE IF m \in {4, 6, 9, 11} THEN 30 ELSE 31

RECURSIVE DaysBeforeMonth(_, _)
DaysBeforeMonth(y, m) ==
    IF m = 1 THEN 0 ELSE DaysBeforeMonth(y, m - 1) + DaysInMonth(y, m - 1)

DaysBeforeYear(y) ==
    (y - 1) * 365 + ((y - 1) \div 4) - ((y - 1) \div 100) + ((y - 1) \div 400)

\* date(y, m, d).toordinal()
Ymd2Ord(y, m, d) == DaysBeforeYear(y) + DaysBeforeMonth(y, m) + d

\* date.fromordinal(n), as [year, month, day]
Ord2Ymd(n) ==
    LET n0   == n - 1
        n400 == n0 \div 146097
        r400 == n0 % 146097
        n100 == r400 \div 36524
        r100 == r400 % 36524
        n4   == r100 \div 1461
        r4   == r100 % 1461
        n1   == r4 \div 365
        r1   == r4 % 365
        year == n400 * 400 + 1 + n100 * 100 + n4 * 4 + n1
    IN  IF n1 = 4 \/ n100 = 4
        THEN [year |-> year - 1, month |-> 12, day |-> 31]
        ELSE LET month == CHOOSE m \in 1..12 :
                              /\ DaysBeforeMonth(year, m) <= r1
                              /\ r1 < DaysBeforeMonth(year, m) + DaysInMonth(year, m)
             IN  [year |-> year, month |-> month,
                  day |-> r1 - DaysBeforeMonth(year, month) + 1]

(***************************************************************************)
(* Text <-> number conversions.                                            *)
(***************************************************************************)
DigitChar == <<"0", "1", "2", "3", "4", "5", "6", "7", "8", "9">>

IsDigitChar(c) == \E d \in 0..9 : DigitChar[d + 1] = c

CharDigit(c) == CHOOSE d \in 0..9 : DigitChar[d + 1] = c

\* int(token): the value of a field of decimal digits (read_csv's int64 parse)
RECURSIVE DigitsToInt(_)
DigitsToInt(ds) ==
    IF ds = <<>> THEN 0
    ELSE 10 * DigitsToInt(SubSeq(ds, 1, Len(ds) - 1)) + ds[Len(ds)]

\* str(n) for n >= 0: no sign, no leading zeros (Series.astype(str))
RECURSIVE IntToStr(_)
IntToStr(n) ==
    IF n < 10 THEN <<DigitChar[n + 1]>>
    ELSE IntToStr(n \div 10) \o <<DigitChar[(n % 10) + 1]>>

\* the number a tuple of digit characters spells
RECURSIVE StrToInt(_)
StrToInt(s) ==
    IF s = <<>> THEN 0
    ELSE 10 * StrToInt(SubSeq(s, 1, Len(s) - 1)) + CharDigit(s[Len(s)])

\* '%02d' / '%04d' of strftime
RECURSIVE ZeroPad(_, _)
ZeroPad(s, w) == IF Len(s) >= w THEN s ELSE ZeroPad(<<"0">> \o s, w)

(***************************************************************************)
(* The date column of read_txt_from_url (line 24).                         *)
(***************************************************************************)
\* df['YYYY'].astype(str) + df['DDD'].astype(str)
DateKey(yyyy, ddd) == IntToStr(yyyy) \o IntToStr(ddd)

\* does the key match the format '%Y%j' (four digits, then a day 1..366
\* written in at most three digits) ?
MatchesYj(s) ==
    /\ Len(s) \in 5..7
    /\ \A i \in 1..Len(s) : IsDigitChar(s[i])
    /\ StrToInt(SubSeq(s, 5, Len(s))) \in 1..366

\* faulty variant: the day-of-year added to January 1st without the -1
strptime_Yj_OffByOne(s) ==
    LET year   == StrToInt(SubSeq(s, 1, 4))
        julian == StrToInt(SubSeq(s, 5, Len(s)))
    IN  Ord2Ymd(julian + Ymd2Ord(year, 1, 1))

\* pd.to_datetime(s, format='%Y%j'): the day-of-year is added to January 1st
\* of the year; it is not checked against the length of the year
strptime_Yj(s) ==
    LET year   == StrToInt(SubSeq(s, 1, 4))
        julian == StrToInt(SubSeq(s, 5, Len(s)))
    IN  Ord2Ymd((julian - 1) + Ymd2Ord(year, 1, 1))

\* .dt.strftime('%m/%d/%Y')
strftime_mdY(dt) ==
    ZeroPad(IntToStr(dt.month), 2) \o <<"/">> \o
    ZeroPad(IntToStr(dt.day), 2) \o <<"/">> \o
    ZeroPad(IntToStr(dt.year), 4)

\* pd.to_datetime(Date) of lines 87 and 100, as the ordinal of the day
to_datetime(s) ==
    Ymd2Ord(StrToInt(SubSeq(s, 7, 10)), StrToInt(SubSeq(s, 1, 2)),
            StrToInt(SubSeq(s, 4, 5)))

(***************************************************************************)
(* read_txt_from_url (lines 14-36).                                        *)
(***************************************************************************)
NaN == "NaN"

NumColumns == 10     \* len(column_names)

\* the field of a line under column k: a missing trailing field is NaN
Field(line, k) == IF k <= Len(line) THEN line[k] ELSE NaN

\* pd.read_csv(data, delim_whitespace=True, header=None, names=column_names):
\* blank lines are skipped, every other line becomes a row
read_csv(text) ==
    LET lines == SelectSeq(text, LAMBDA l : l # <<>>)
    IN  [i \in 1..Len(lines) |->
            [index             |-> i - 1,
             YYYY              |-> DigitsToInt(lines[i][1]),
             DDD               |-> DigitsToInt(lines[i][2]),
             X                 |-> Field(lines[i], 3),
             isWithinTolerance |-> Field(lines[i], 4),
             Xm                |-> Field(lines[i], 5),
             Ym                |-> Field(lines[i], 6),
             Zm                |-> Field(lines[i], 7),
             sigmaXm           |-> Field(lines[i], 8),
             sigmaYm           |-> Field(lines[i], 9),
             sigmaZm           |-> Field(lines[i], NumColumns)]]

\* lines 24-31: add 'Date', drop 'YYYY' and 'DDD', put 'Date' first
WithDate(row) ==
    [index             |-> row.index,
     Date              |-> strftime_mdY(strptime_Yj(DateKey(row.YYYY, row.DDD))),
     X                 |-> row.X,
     isWithinTolerance |-> row.isWithinTolerance,
     Xm                |-> row.Xm,
     Ym                |-> row.Ym,
     Zm                |-> row.Zm,
     sigmaXm           |-> row.sigmaXm,
     sigmaYm           |-> row.sigmaYm,
     sigmaZm           |-> row.sigmaZm]

\* response.raise_for_status() raises HTTPError
IsHTTPError(status) == status >= 400 /\ status < 600

\* The outcome of read_txt_from_url for what requests.get meets: a response
\* [status, text], or no response at all (status 0, a ConnectionError).
\*   kind "df":    a DataFrame is returned
\*   kind "None":  a RequestException was caught, st.error called, None returned
\*   kind "raise": an exception that is no RequestException leaves the function
read_txt_from_url(resp) ==
    IF resp.status = 0 THEN
        [kind |-> "None", df |-> <<>>, exc |-> "",
         error |-> "Error loading data: ConnectionError",
         trace |-> <<"requests.get">>]
    ELSE IF IsHTTPError(resp.status) THEN
        [kind |-> "None", df |-> <<>>, exc |-> "",
         error |-> "Error loading data: HTTPError",
         trace |-> <<"requests.get", "raise_for_status">>]
    ELSE LET df == read_csv(resp.text)
         IN  IF df = <<>> THEN
                 [kind |-> "raise", df |-> <<>>, exc |-> "EmptyDataError",
                  error |-> "",
                  trace |-> <<"requests.get", "raise_for_status", "read_csv">>]
             ELSE IF \E i \in 1..Len(df) : ~MatchesYj(DateKey(df[i].YYYY, df[i].DDD)) THEN
                 [kind |-> "raise", df |-> <<>>, exc |-> "ValueError",
                  error |-> "",
                  trace |-> <<"requests.get", "raise_for_status", "read_csv",
                              "to_datetime">>]
             ELSE
                 [kind |-> "df", df |-> [i \in 1..Len(df) |-> WithDate(df[i])],
                  exc |-> "", error |-> "",
                  trace |-> <<"requests.get", "raise_for_status", "read_csv",
                              "to_datetime">>]

(***************************************************************************)
(* convert_xyz_to_lat_lon_height (lines 39-52) and convert_uncertainties   *)
(* (lines 55-57).                                                          *)
(***************************************************************************)
\* transformer.transform(x, y, z) of pyproj, EPSG:4978 -> EPSG:4326 with
\* always_xy: returns (lon, lat, height)
transform(x, y, z) ==
    <<<<"lon", x, y, z>>, <<"lat", x, y, z>>, <<"height", x, y, z>>>>

convert_xyz_to_lat_lon_height(x, y, z) ==
    LET t == transform(x, y, z)
    IN  <<t[2], t[1], t[3]>>

\* faulty variant: the first two uncertainties exchanged
convert_uncertainties_Swapped(sigma_x, sigma_y, sigma_z) == <<sigma_y, sigma_x, sigma_z>>

convert_uncertainties(sigma_x, sigma_y, sigma_z) == <<sigma_x, sigma_y, sigma_z>>

(***************************************************************************)
(* The fetched texts of the model.                                         *)
(***************************************************************************)
\* n written in w decimal digits, as the file writes YYYY and DDD
RECURSIVE Digits(_, _)
Digits(n, w) == IF w = 0 THEN <<>> ELSE Digits(n \div 10, w - 1) \o <<n % 10>>

Coordinates ==
    <<<<"6378137.0", "0.0", "0.0", "0.001", "0.002", "0.003">>,
      <<"-2694045.1", "-4293642.2", "3857878.3", "0.004", "0.005", "0.006">>,
      <<"1.5", "2.5", "6356752.3", "0.007", "0.008", "0.009">>,
      <<"918129.4", "-4346071.2", "4561977.8", "0.010", "0.011", "0.012">>>>

\* the line of year y, day d, with coordinate tuple k, cut to its first n fields
Line(y, d, k, n) ==
    SubSeq(<<Digits(y, 4), Digits(d, 3), "X", "T">> \o Coordinates[k], 1, n)

Sites == {"abcd", "wxyz"}          \* OPUS_Net_Site_Names.csv

\* all texts of at most n lines drawn from the set L
RECURSIVE Texts(_, _)
Texts(L, n) ==
    IF n = 0 THEN {<<>>}
    ELSE LET shorter == Texts(L, n - 1)
         IN  shorter \cup {Append(t, l) : t \in {u \in shorter : Len(u) = n - 1}, l \in L}

\* session specification: a full line of day 59 and a short line of day 60
SessionLines == {Line(2024, 59, 1, NumColumns), Line(2024, 60, 2, 8)}

SessionTexts == Texts(SessionLines, MaxLines)

Statuses == {0, 200, 404, 500}     \* 0: requests.get raised, there is no response

\* a text arrives with status 200; the body of an error response is never read
Responses == {[status |-> 200, text |-> t] : t \in SessionTexts} \cup
             {[status |-> st, text |-> <<>>] : st \in Statuses \ {200}}

\* pipeline specification: texts of up to MaxPipeLines lines over three
\* consecutive days, out of order and with repeated days, lines of 8, 9 and
\* 10 fields
PipeLines == {Line(2024, 60, 1, NumColumns), Line(2024, 59, 2, 8),
              Line(2024, 60, 3, 8), Line(2024, 61, 4, 9)}

PipeResponses == {[status |-> 200, text |-> t] : t \in Texts(PipeLines, MaxPipeLines)}

\* parse specification: the one-line texts of every day-of-year token
\* 0..MaxDay of a leap year, two common years and a leap century year
Years == {1900, 2000, 2023, 2024}

DateResponses == {[status |-> 200, text |-> <<Line(y, d, 1, 9)>>] :
                      y \in Years, d \in 0..MaxDay}

NoResponse == [status |-> -1, text |-> <<>>]

RowOptions == {10, 50, 100}        \* the options of the rows selectbox (line 95)

(***************************************************************************)
(* The script (lines 60-158).                                              *)
(***************************************************************************)
Has(key) == key \in DOMAIN session_state

\* st.session_state.<key> = value
SetKey(s, key, value) ==
    [k \in DOMAIN s \cup {key} |-> IF k = key THEN value ELSE s[k]]

\* line 85: is the date filter on the page ?
FilterOffered == Has("show_date_filter") /\ session_state["show_date_filter"]

\* line 110: is the Convert button on the page ?  (The only assignment to
\* filtered_data, line 104, stores a DataFrame, so "is not None" adds nothing.)
ConvertOffered == Has("filtered_data")

\* lines 87-89: the bounds of the date input
MinOf(S) == CHOOSE x \in S : \A y \in S : x <= y

MaxOf(S) == CHOOSE x \in S : \A y \in S : x >= y

available_dates(df) == {to_datetime(df[i].Date) : i \in 1..Len(df)}

\* faulty variant: > in place of >=
DateMask_Strict(df, start) == SelectSeq(df, LAMBDA row : to_datetime(row.Date) > start)

\* line 100: df[pd.to_datetime(df['Date']) >= pd.to_datetime(start_date)]
DateMask(df, start) == SelectSeq(df, LAMBDA row : to_datetime(row.Date) >= start)

\* line 101: DataFrame.head(n)
head(df, n) == SubSeq(df, 1, IF n < Len(df) THEN n ELSE Len(df))

Init ==
    /\ session_state = <<>>
    /\ selected_site \in Sites
    /\ button = ""
    /\ response = NoResponse
    /\ trace = <<>>
    /\ st_error = ""
    /\ exception = ""
    /\ start_date = 0
    /\ rows_to_show = 0
    /\ converted_data = <<>>

\* faulty variant: the filter is shown whatever read_txt_from_url returned
AfterFetch_AlwaysShow(s, r) ==
    IF r.kind = "df" THEN SetKey(SetKey(s, "data", r.df), "show_date_filter", TRUE)
    ELSE IF r.kind = "None" THEN SetKey(s, "show_date_filter", TRUE)
    ELSE s

\* faulty variant: the else branch of line 81 is missing
AfterFetch_NoHide(s, r) ==
    IF r.kind = "df" THEN SetKey(SetKey(s, "data", r.df), "show_date_filter", TRUE)
    ELSE s

\* lines 69-82: what the Fetch Data run leaves in st.session_state
AfterFetch(s, r) ==
    IF r.kind = "df" THEN SetKey(SetKey(s, "data", r.df), "show_date_filter", TRUE)
    ELSE IF r.kind = "None" THEN SetKey(s, "show_date_filter", FALSE)
    ELSE s

\* read_txt_from_url on every response of the model, computed once
Fetched == [resp \in Responses \cup PipeResponses \cup DateResponses |->
                read_txt_from_url(resp)]

\* a click on Fetch Data, requests.get meeting resp
FetchData(resp) ==
    LET r == Fetched[resp]
    IN  /\ session_state' = AfterFetch(session_state, r)
        /\ button' = "Fetch Data"
        /\ response' = resp
        /\ trace' = r.trace
        /\ st_error' = r.error
        /\ exception' = r.exc
        /\ converted_data' = <<>>
        /\ UNCHANGED <<selected_site, start_date, rows_to_show>>

\* faulty variant: the filtered set is stored over the record set as well
AfterShow_Overwrite(s, start, rows) ==
    LET f == head(DateMask(s["data"], start), rows)
    IN  SetKey(SetKey(s, "filtered_data", f), "data", f)

\* lines 98-104: what the Show Data run leaves in st.session_state
AfterShow(s, start, rows) ==
    SetKey(s, "filtered_data", head(DateMask(s["data"], start), rows))

\* a click on Show Data with the date input at start and the selectbox at rows
ShowData(start, rows) ==
    /\ FilterOffered
    /\ session_state' = AfterShow(session_state, start, rows)
    /\ button' = "Show Data"
    /\ start_date' = start
    /\ rows_to_show' = rows
    /\ response' = NoResponse
    /\ trace' = <<>>
    /\ st_error' = ""
    /\ exception' = ""
    /\ converted_data' = <<>>
    /\ UNCHANGED selected_site

\* lines 123-144 for one row, and its row of the DataFrame of lines 147-155
ConvertRow(row) ==
    LET llh == convert_xyz_to_lat_lon_height(row.Xm, row.Ym, row.Zm)
        sig == convert_uncertainties(row.sigmaXm, row.sigmaYm, row.sigmaZm)
    IN  [index          |-> row.index,
         Date           |-> row.Date,
         Latitude       |-> llh[1],
         Longitude      |-> llh[2],
         Height         |-> llh[3],
         SigmaLatitude  |-> sig[1],
         SigmaLongitude |-> sig[2],
         SigmaHeight    |-> sig[3]]

\* faulty variant: the converted rows in reverse order
ConvertFrame_Reversed(df) ==
    [i \in 1..Len(df) |-> ConvertRow(df[Len(df) + 1 - i])]

\* lines 112-155
ConvertFrame(df) == [i \in 1..Len(df) |-> ConvertRow(df[i])]

\* a click on Convert
Convert ==
    /\ ConvertOffered
    /\ converted_data' = ConvertFrame(session_state["filtered_data"])
    /\ button' = "Convert"
    /\ response' = NoResponse
    /\ trace' = <<>>
    /\ st_error' = ""
    /\ exception' = ""
    /\ UNCHANGED <<session_state, selected_site, start_date, rows_to_show>>

\* another site is chosen in the selectbox: a run with no button clicked
SelectSite(site) ==
    /\ site # selected_site
    /\ selected_site' = site
    /\ button' = ""
    /\ response' = NoResponse
    /\ trace' = <<>>
    /\ st_error' = ""
    /\ exception' = ""
    /\ converted_data' = <<>>
    /\ UNCHANGED <<session_state, start_date, rows_to_show>>

FetchDataClick == \E resp \in Responses : FetchData(resp)

\* the date input only lets a date of [min_date, max_date] through
ShowDataClick ==
    /\ FilterOffered
    /\ LET dates == available_dates(session_state["data"])
       IN  \E start \in MinOf(dates)..MaxOf(dates), rows \in RowOptions :
               ShowData(start, rows)

ConvertClick == Convert

SelectSiteChange == \E site \in Sites : SelectSite(site)

Next == FetchDataClick \/ ShowDataClick \/ ConvertClick \/ SelectSiteChange

Spec == Init /\ [][Next]_vars

(***************************************************************************)
(* The pipeline on its own: one fetch -> filter -> convert invocation,     *)
(* with the filter's inputs not confined by the widgets (any start date    *)
(* from the day before the first record to the day after the last, any     *)
(* limit 1..MaxLimit).                                                     *)
(***************************************************************************)
PipeFetch == ~Has("data") /\ \E resp \in PipeResponses : FetchData(resp)

PipeSelect ==
    /\ FilterOffered
    /\ LET dates == available_dates(session_state["data"])
       IN  \E start \in (MinOf(dates) - 1)..(MaxOf(dates) + 1), rows \in 1..MaxLimit :
               ShowData(start, rows)

PipeConvert == Convert

NextPipeline == PipeFetch \/ PipeSelect \/ PipeConvert

SpecPipeline == Init /\ [][NextPipeline]_vars

(***************************************************************************)
(* The parser on its own: the first fetch of a session, over the one-line  *)
(* texts of every day token.                                               *)
(***************************************************************************)
ParseFetch == button = "" /\ \E resp \in DateResponses : FetchData(resp)

NextParse == ParseFetch

SpecParse == Init /\ [][NextParse]_vars

(***************************************************************************)
(* Properties.                                                             *)
(***************************************************************************)
data == session_state["data"]

filtered_data == session_state["filtered_data"]

\* the last run was a Fetch Data run that stored a new record set
FetchSucceeded ==
    /\ button = "Fetch Data"
    /\ response.status = 200
    /\ st_error = ""
    /\ exception = ""
    /\ Has("data")

\* the last run was a Fetch Data run whose request failed
FetchFailed == button = "Fetch Data" /\ response.status # 200

\* C1: the date filter comes onto the page only by a Fetch Data run that
\* succeeded, and the Convert button only by a Show Data run (which needs the
\* filter on the page and stores a filtered set); neither is on the page of
\* a new session, and the filter is never offered without a stored record set.
C1_Gating ==
    /\ ~FilterOffered /\ ~ConvertOffered
    /\ [][/\ (FilterOffered' /\ ~FilterOffered) => FetchSucceeded'
          /\ (ConvertOffered' /\ ~ConvertOffered) =>
                 (button' = "Show Data" /\ FilterOffered /\ Has("filtered_data")')]_vars
    /\ [](FilterOffered => Has("data"))

C1_Witness == FilterOffered /\ ConvertOffered /\ button = "Convert"

\* a Fetch Data click whose request succeeds and brings the filter back
GoodFetch == \E resp \in Responses : FetchData(resp) /\ FilterOffered'

C6_Linear ==
    /\ button = "Fetch Data" => ~ConvertOffered
    /\ ConvertOffered =>
           /\ FilterOffered
           /\ \A i \in 1..Len(filtered_data) :
                  \E j \in 1..Len(data) : filtered_data[i] = data[j]

\* C10: a Show Data run leaves the stored record set as it is, a Convert run
\* leaves the record set and the filtered set as they are; a Show Data run
\* right after a Show Data run with the same date and row count stores the
\* same filtered set, a Convert run right after a Convert run displays the
\* same converted set.
C10_Frame ==
    [][/\ button' = "Show Data" =>
              /\ session_state'["data"] = session_state["data"]
              /\ (button = "Show Data" /\ start_date' = start_date
                     /\ rows_to_show' = rows_to_show) =>
                     session_state'["filtered_data"] = session_state["filtered_data"]
       /\ button' = "Convert" =>
              /\ session_state'["data"] = session_state["data"]
              /\ session_state'["filtered_data"] = session_state["filtered_data"]
              /\ button = "Convert" => converted_data' = converted_data]_vars

C10_Witness ==
    /\ button = "Convert"
    /\ Has("data")
    /\ Len(filtered_data) >= 1
    /\ Len(filtered_data) < Len(data)

\* the positions of the records of df dated start or later
Kept(df, start) == {i \in 1..Len(df) : to_datetime(df[i].Date) >= start}

\* the j-th smallest element of the set K of numbers
Nth(K, j) == CHOOSE i \in K : Cardinality({m \in K : m < i}) = j - 1

\* C2: after a Show Data run the stored filtered set consists of the records
\* dated start_date or later, in the order of the record set, cut to the
\* first rows_to_show of them; a start date after every record gives the
\* empty set; the run raises nothing.
C2_Filter ==
    button = "Show Data" =>
        LET K == Kept(data, start_date)
            n == IF rows_to_show < Cardinality(K) THEN rows_to_show ELSE Cardinality(K)
        IN  /\ Len(filtered_data) = n
            /\ \A j \in 1..n : filtered_data[j] = data[Nth(K, j)]
            /\ (\A i \in 1..Len(data) : to_datetime(data[i].Date) < start_date)
                   => filtered_data = <<>>
            /\ exception = ""

\* a run that both drops a record by its date and cuts by the limit, on a
\* record set that is not in date order
C2_Witness ==
    /\ button = "Show Data"
    /\ rows_to_show < Cardinality(Kept(data, start_date))
    /\ Cardinality(Kept(data, start_date)) < Len(data)
    /\ to_datetime(data[1].Date) > to_datetime(data[2].Date)

\* C7: every row a Convert run displays has the sigmaX, sigmaY and sigmaZ
\* of the same row of the filtered set as its Sigma Latitude, Sigma
\* Longitude and Sigma Height.
C7_SigmaPassThrough ==
    button = "Convert" =>
        \A i \in 1..Len(converted_data) :
            /\ i <= Len(filtered_data)
            /\ converted_data[i].SigmaLatitude = filtered_data[i].sigmaXm
            /\ converted_data[i].SigmaLongitude = filtered_data[i].sigmaYm
            /\ converted_data[i].SigmaHeight = filtered_data[i].sigmaZm

C7_Witness ==
    /\ button = "Convert"
    /\ Len(converted_data) >= 2
    /\ \E i \in 1..Len(filtered_data) : filtered_data[i].sigmaZm # NaN

\* C9: a Convert run displays one row per row of the stored filtered set, in
\* the same order, each with the Date (and index label) of its filtered row;
\* an empty filtered set gives an empty converted set; the run raises nothing.
C9_OnePerRow ==
    button = "Convert" =>
        /\ Len(converted_data) = Len(filtered_data)
        /\ \A i \in 1..Len(filtered_data) :
               /\ converted_data[i].Date = filtered_data[i].Date
               /\ converted_data[i].index = filtered_data[i].index
        /\ filtered_data = <<>> => converted_data = <<>>
        /\ exception = ""

C9_Witness ==
    /\ button = "Convert"
    /\ Len(filtered_data) >= 2
    /\ filtered_data[1].Date # filtered_data[2].Date

\* the fetched text has a line of year 2024, day-of-year d at position i
IsDayOf2024(i, d) ==
    /\ i <= Len(response.text)
    /\ DigitsToInt(response.text[i][1]) = 2024
    /\ DigitsToInt(response.text[i][2]) = d

\* C3 as stated: the record of year 2024, day-of-year 60 gets the Date
\* 03/01/2024.
C3_March1 ==
    (button = "Fetch Data" /\ response.status = 200) =>
        \A i \in 1..Len(response.text) :
            IsDayOf2024(i, 60) =>
                /\ Has("data")
                /\ data[i].Date = <<"0", "3", "/", "0", "1", "/", "2", "0", "2", "4">>

\* C3 amended: the record of year 2024, day-of-year 60 gets the Date
\* 02/29/2024, the 60th day of the leap year 2024 counted from January 1st:
\* day 1 is 01/01/2024 and day 366 is 12/31/2024.
C3_Feb29 ==
    (button = "Fetch Data" /\ response.status = 200) =>
        \A i \in 1..Len(response.text) :
            /\ IsDayOf2024(i, 60) =>
                   /\ Has("data")
                   /\ exception = ""
                   /\ data[i].Date = <<"0", "2", "/", "2", "9", "/", "2", "0", "2", "4">>
            /\ IsDayOf2024(i, 1) =>
                   /\ Has("data")
                   /\ data[i].Date = <<"0", "1", "/", "0", "1", "/", "2", "0", "2", "4">>
            /\ IsDayOf2024(i, 366) =>
                   /\ Has("data")
                   /\ data[i].Date = <<"1", "2", "/", "3", "1", "/", "2", "0", "2", "4">>

C3_Witness ==
    /\ button = "Fetch Data"
    /\ IsDayOf2024(1, 60)
    /\ Has("data")

\* C4: when the fetched text has a line with fewer fields than the columns
\* of the layout, the Fetch Data run reports an error and stores no record
\* with a missing value.
C4_ShortLineReported ==
    (button = "Fetch Data" /\ response.status = 200
        /\ \E i \in 1..Len(response.text) :
               response.text[i] # <<>> /\ Len(response.text[i]) < NumColumns) =>
        /\ st_error # "" \/ exception # ""
        /\ ~(Has("data") /\ \E i \in 1..Len(data) :
                                data[i].sigmaYm = NaN \/ data[i].sigmaZm = NaN)

====
